---------------------------- MODULE Spec2Model ----------------------------
(***************************************************************************)
(* A model of llama_index/embeddings/huggingface.py.                       *)
(*                                                                         *)
(*   Spec       HuggingFaceInferenceAPIEmbeddings: embed_documents,        *)
(*              aembed_documents, embed_query and aembed_query, with the   *)
(*              asyncio tasks they create and the hosted responses.        *)
(*   SpecLocal  HuggingFaceEmbedding: __init__ and the methods that format *)
(*              a query or a text and hand the sentences to _embed.        *)
(*   SpecPool   HuggingFaceEmbedding, the same methods through _embed:     *)
(*              pooling and normalization of arbitrary small tensors, on   *)
(*              an instance built with a pooling and a normalize argument. *)
(*                                                                         *)
(* Numbers are integers; a division (a mean) is the integer quotient, and  *)
(* the tensors of _embed hold fixed-point values, Scale units to 1.0.      *)
(* An ndarray is a record [shape, data] with data in row-major order; a    *)
(* Python list is a sequence whose items are ndarrays (a scalar is the     *)
(* ndarray of shape << >>).                                                *)
(***************************************************************************)
EXTENDS Integers, Sequences, FiniteSets, TLC

(***************************************************************************)
(* Bounds of the model.                                                    *)
(***************************************************************************)
\* the longest list of texts handed to embed_documents / aembed_documents
MaxTexts == 2

\* the longest padded sequence the tokenizer hands to the model
MaxTokens == 2

\* fixed-point resolution of the tensors of _embed: Scale units are 1.0
Scale == 10

TextSet == {"a", "b"}

\* every list of texts of at most MaxTexts elements, the empty one included
TextLists == UNION {[1..n -> TextSet] : n \in 0..MaxTexts}

(***************************************************************************)
(* ndarrays.                                                               *)
(***************************************************************************)
RECURSIVE Prod(_)
Prod(s) == IF s = << >> THEN 1 ELSE Head(s) * Prod(Tail(s))

Arr(shape, data) == [shape |-> shape, data |-> data]

ndim(a) == Len(a.shape)

\* a[i] (1-based here): the i-th item along the first axis
Item(a, i) ==
    LET n == Prod(Tail(a.shape))
    IN  Arr(Tail(a.shape), SubSeq(a.data, (i - 1) * n + 1, i * n))

RECURSIVE Flatten(_)
Flatten(rows) == IF rows = << >> THEN << >> ELSE Head(rows) \o Flatten(Tail(rows))

RECURSIVE SumSeq(_)
SumSeq(s) == IF s = << >> THEN 0 ELSE Head(s) + SumSeq(Tail(s))

\* numpy's ndarray.squeeze(axis=0): drops the first axis when its size is 1
\* and raises ValueError otherwise
squeeze0(a) ==
    IF ndim(a) >= 1 /\ a.shape[1] = 1
    THEN [ok |-> TRUE, arr |-> Arr(Tail(a.shape), a.data)]
    ELSE [ok |-> FALSE, arr |-> a]

\* list(ndarray): the items along the first axis
list(a) == [i \in 1..a.shape[1] |-> Item(a, i)]

(***************************************************************************)
(* llama_index.embeddings.pooling.Pooling, whose file is not among the     *)
(* sources: CLS takes the vector of the first token position of a          *)
(* sequence, MEAN averages the token vectors, a 2-D array being one        *)
(* sequence (tokens x hidden) and a 3-D array a batch of them.             *)
(***************************************************************************)
\* the mean over the first axis of a 2-D array
MeanRows(a) ==
    LET T == a.shape[1]
        H == a.shape[2]
    IN  Arr(<<H>>, [h \in 1..H |->
            SumSeq([t \in 1..T |-> a.data[(t - 1) * H + h]]) \div T])

cls_pooling(a) ==
    IF ndim(a) = 2 THEN Item(a, 1)
    ELSE Arr(<<a.shape[1], a.shape[3]>>,
             Flatten([b \in 1..a.shape[1] |-> Item(Item(a, b), 1).data]))

mean_pooling(a) ==
    IF ndim(a) = 2 THEN MeanRows(a)
    ELSE Arr(<<a.shape[1], a.shape[3]>>,
             Flatten([b \in 1..a.shape[1] |-> MeanRows(Item(a, b)).data]))

Pooling(p, a) == IF p = "cls" THEN cls_pooling(a) ELSE mean_pooling(a)

PoolingChoices == {"None", "cls", "mean"}

(***************************************************************************)
(* What a feature-extraction request can come back with: an exception of   *)
(* the client, or an ndarray.  The arrays: pooled on the server (1, H),    *)
(* one vector per token (1, T, H), the same below two leading axes         *)
(* (1, 1, T, H), and one without a leading axis of size 1.                 *)
(***************************************************************************)
ClientErrors == {"HfHubHTTPError", "TimeoutError"}

PooledA == Arr(<<1, 2>>, <<5, 7>>)
PooledB == Arr(<<1, 2>>, <<9, 3>>)
PerToken == Arr(<<1, 2, 2>>, <<2, 4, 6, 8>>)
PerToken4 == Arr(<<1, 1, 2, 2>>, <<2, 4, 6, 8>>)
NoBatchAxis == Arr(<<2>>, <<5, 7>>)

ResponseArrays == {PooledA, PooledB, PerToken, PerToken4, NoBatchAxis}

NoArr == Arr(<< >>, << >>)

Raised(e) == [kind |-> "raise", exc |-> e, val |-> << >>]
Returned(v) == [kind |-> "return", exc |-> "", val |-> v]
NoOutcome == [kind |-> "none", exc |-> "", val |-> << >>]

\* a response: [ok |-> FALSE, exc] when feature_extraction raised, else the array
Responses ==
    {[ok |-> FALSE, exc |-> e, arr |-> NoArr] : e \in ClientErrors}
    \cup {[ok |-> TRUE, exc |-> "", arr |-> a] : a \in ResponseArrays}


(***************************************************************************)
(* HuggingFaceInferenceAPIEmbeddings.aembed_query, from the response of    *)
(* the awaited feature_extraction call to what the coroutine returns or    *)
(* raises.                                                                 *)
(***************************************************************************)
SqueezeError == "ValueError: cannot select an axis to squeeze out"
PoolingRequired == "ValueError: Pooling is required"
WaitEmpty == "ValueError: Set of coroutines/Futures is empty"

\* aembed_query with the await inside the try block and a broad except: a
\* failure of the request comes out as the ValueError
aembed_query_wrapping(p, r) ==
    IF ~r.ok THEN Raised(PoolingRequired)
    ELSE LET sq == squeeze0(r.arr)
         IN  IF ~sq.ok THEN Raised(SqueezeError)
             ELSE IF ndim(sq.arr) = 1 THEN Returned(list(sq.arr))
             ELSE IF p = "None" THEN Raised(PoolingRequired)
             ELSE Returned(list(Pooling(p, sq.arr)))

\* aembed_query without the "some models pool internally" shortcut
aembed_query_always_pooling(p, r) ==
    IF ~r.ok THEN Raised(r.exc)
    ELSE LET sq == squeeze0(r.arr)
         IN  IF ~sq.ok THEN Raised(SqueezeError)
             ELSE IF p = "None" THEN Raised(PoolingRequired)
             ELSE IF ndim(sq.arr) = 1 THEN Raised("NotImplementedError")
             ELSE Returned(list(Pooling(p, sq.arr)))

\* aembed_query returning the raw value when there is no pooling
aembed_query_unpooled(p, r) ==
    IF ~r.ok THEN Raised(r.exc)
    ELSE LET sq == squeeze0(r.arr)
         IN  IF ~sq.ok THEN Raised(SqueezeError)
             ELSE IF ndim(sq.arr) = 1 \/ p = "None" THEN Returned(list(sq.arr))
             ELSE Returned(list(Pooling(p, sq.arr)))

aembed_query(p, r) ==
    IF ~r.ok THEN Raised(r.exc)
    ELSE LET sq == squeeze0(r.arr)
         IN  IF ~sq.ok THEN Raised(SqueezeError)
             ELSE IF ndim(sq.arr) = 1 THEN Returned(list(sq.arr))
             ELSE IF p = "None" THEN Raised(PoolingRequired)
             ELSE Returned(list(Pooling(p, sq.arr)))

(***************************************************************************)
(* The state of one call on a HuggingFaceInferenceAPIEmbeddings instance.  *)
(***************************************************************************)
VARIABLES
    pooling,    \* self.pooling: "None", "cls" or "mean"
    pc,         \* where the call is: "idle", "created", "waiting", "done"
    api,        \* the method called
    texts,      \* its argument (a one-element list for the query methods)
    loop,       \* "none", "open", "closed" (embed_documents' own loop) or "external"
    tasks,      \* the asyncio tasks, in creation order
    requests,   \* the feature-extraction requests issued, in issue order
    order,      \* the responses, in completion order
    peak,       \* the most requests that were in flight at one time
    outcome     \* what the call returned or raised

hostedVars == <<pooling, pc, api, texts, loop, tasks, requests, order, peak, outcome>>

VARIABLES
    lpc,        \* "new", "ready" (constructed) or "failed" (__init__ raised)
    args,       \* the arguments __init__ was called with
    self,       \* the fields of the instance
    loaded,     \* the names AutoModel / AutoTokenizer.from_pretrained were given
    lastop,     \* the last method called and its argument
    sentences   \* the list that method handed to _embed

localVars == <<lpc, args, self, loaded, lastop, sentences>>

VARIABLES
    model_output,    \* model_output[0]: token embeddings, batch x tokens x hidden
    attention_mask,  \* encoded_input["attention_mask"], batch x tokens
    pooled,          \* the embeddings after pooling
    embeddings       \* what _embed returned

poolVars == <<model_output, attention_mask, pooled, embeddings>>

vars == <<hostedVars, localVars, poolVars>>

DocumentApis == {"embed_documents", "aembed_documents"}
QueryApis == {"embed_query", "aembed_query"}
\* embed_query is embed_documents(texts=[text])[0]
OwnLoopApis == {"embed_documents", "embed_query"}

NewTask(t) == [text |-> t, st |-> "created", result |-> NoOutcome]

HostedInit(p) ==
    /\ pooling = p
    /\ pc = "idle"
    /\ api = "none"
    /\ texts = << >>
    /\ loop = "none"
    /\ tasks = << >>
    /\ requests = << >>
    /\ order = << >>
    /\ peak = 0
    /\ outcome = NoOutcome

InFlight(ts) == {i \in 1..Len(ts) : ts[i].st = "awaiting"}

\* tasks = [loop.create_task(self.aembed_query(text)) for text in texts]
create_tasks(ts) == [i \in 1..Len(ts) |-> NewTask(ts[i])]

\* The call up to its first suspension: the loop and every task are created
\* before anything is awaited.  aembed_query called directly is one coroutine.
Call(a, ts) ==
    /\ pc = "idle"
    /\ api' = a
    /\ texts' = ts
    /\ tasks' = create_tasks(ts)
    /\ loop' = IF a \in OwnLoopApis THEN "open" ELSE "external"
    /\ pc' = IF a = "aembed_query" THEN "waiting" ELSE "created"
    /\ UNCHANGED <<pooling, requests, order, peak, outcome, localVars, poolVars>>

\* asyncio.wait(tasks): raises ValueError on an empty set, else suspends the
\* caller until the tasks are done; embed_documents closes its loop in finally.
wait ==
    /\ pc = "created"
    /\ IF tasks = << >>
       THEN /\ outcome' = Raised(WaitEmpty)
            /\ loop' = IF api \in OwnLoopApis THEN "closed" ELSE loop
            /\ pc' = "done"
       ELSE /\ pc' = "waiting"
            /\ UNCHANGED <<outcome, loop>>
    /\ UNCHANGED <<pooling, api, texts, tasks, requests, order, peak, localVars, poolVars>>

\* Task i runs up to "await self._async_client.feature_extraction(text)".  The
\* loop runs the first step of each task in the order of the create_task calls
\* (call_soon is first in, first out).
TaskStart(i) ==
    /\ pc = "waiting"
    /\ tasks[i].st = "created"
    /\ \A j \in 1..(i - 1) : tasks[j].st # "created"
    /\ tasks' = [tasks EXCEPT ![i].st = "awaiting"]
    /\ requests' = Append(requests, [task |-> i, text |-> tasks[i].text])
    /\ peak' = LET n == Cardinality(InFlight(tasks')) IN IF n > peak THEN n ELSE peak
    /\ UNCHANGED <<pooling, pc, api, texts, loop, order, outcome, localVars, poolVars>>

\* The request of task i completes with r, and the task runs to its end.
Respond(i, r) ==
    /\ pc = "waiting"
    /\ tasks[i].st = "awaiting"
    /\ tasks' = [tasks EXCEPT ![i].st = "done", ![i].result = aembed_query(pooling, r)]
    /\ order' = Append(order, [task |-> i, resp |-> r])
    /\ UNCHANGED <<pooling, pc, api, texts, loop, requests, peak, outcome, localVars, poolVars>>

\* asyncio.wait with return_when = FIRST_COMPLETED
wait_first(ts) == \E i \in 1..Len(ts) : ts[i].st = "done"

\* asyncio.wait's default return_when = ALL_COMPLETED
wait_done(ts) == \A i \in 1..Len(ts) : ts[i].st = "done"

Failed(ts) == {i \in 1..Len(ts) : ts[i].result.kind # "return"}

Min(S) == CHOOSE x \in S : \A y \in S : x <= y

\* the results collected as the tasks complete
task_results_by_completion(ts, ord) ==
    IF Failed(ts) # {}
    THEN Raised(ts[Min(Failed(ts))].result.exc)
    ELSE Returned([k \in 1..Len(ord) |-> ts[ord[k].task].result.val])

\* [task.result() for task in tasks]: the first task that raised raises here
task_results(ts, ord) ==
    IF Failed(ts) # {}
    THEN Raised(ts[Min(Failed(ts))].result.exc)
    ELSE Returned([i \in 1..Len(ts) |-> ts[i].result.val])

\* what the method hands back from the list of task results
api_result(a, res) ==
    IF a \in DocumentApis \/ res.kind # "return" THEN res ELSE Returned(res.val[1])

\* The caller resumes: loop.close() in finally, then the results in task order.
Join ==
    /\ pc = "waiting"
    /\ wait_done(tasks)
    /\ loop' = IF api \in OwnLoopApis THEN "closed" ELSE loop
    /\ outcome' = api_result(api, task_results(tasks, order))
    /\ pc' = "done"
    /\ UNCHANGED <<pooling, api, texts, tasks, requests, order, peak, localVars, poolVars>>

(***************************************************************************)
(* HuggingFaceEmbedding.  A string is a sequence of characters; None is    *)
(* kept apart from every string.                                           *)
(***************************************************************************)
None == [some |-> FALSE, v |-> << >>]
Some(x) == [some |-> TRUE, v |-> x]

\* Python's "a or b" on Optional[str] names
Or(a, b) == IF a.some /\ a.v # << >> THEN a ELSE b

RECURSIVE lstrip(_)
lstrip(s) == IF s # << >> /\ Head(s) = " " THEN lstrip(Tail(s)) ELSE s

RECURSIVE rstrip(_)
rstrip(s) ==
    IF s # << >> /\ s[Len(s)] = " " THEN rstrip(SubSeq(s, 1, Len(s) - 1)) ELSE s

\* str.strip()
strip(s) == rstrip(lstrip(s))

\* f"{instruction} {text}"
fstring(instruction, text) == instruction \o <<" ">> \o text

\* llama_index.embeddings.huggingface_utils, whose file is not among the
\* sources: the default model name and the default instructions of a model
\* name, empty for a model that has none.
DEFAULT_HUGGINGFACE_EMBEDDING_MODEL == <<"B", "G", "E">>
InstructorModel == <<"I", "N", "S">>
OtherModel == <<"O">>
TokenizerName == <<"T", "K">>

get_query_instruct_for_model_name(name) ==
    IF name = Some(InstructorModel) THEN <<"i", "q", ":">>
    ELSE IF name = Some(DEFAULT_HUGGINGFACE_EMBEDDING_MODEL) THEN <<"b", "q", ":">>
    ELSE << >>

get_text_instruct_for_model_name(name) ==
    IF name = Some(InstructorModel) THEN <<"i", "t", ":">>
    ELSE << >>

NoArgs ==
    [model_name |-> None, tokenizer_name |-> None, pooling |-> "cls",
     max_length |-> None, query_instruction |-> None, text_instruction |-> None,
     normalize |-> TRUE, model |-> "None", tokenizer |-> "None"]

NoSelf ==
    [model_name |-> None, tokenizer_name |-> None, max_length |-> None,
     pooling |-> "", normalize |-> "", query_instruction |-> None,
     text_instruction |-> None]

NotLoaded == [model |-> None, tokenizer |-> None]

NoOp == [op |-> "none", input |-> << >>]

LocalInit ==
    /\ lpc = "new"
    /\ args = NoArgs
    /\ self = NoSelf
    /\ loaded = NotLoaded
    /\ lastop = NoOp
    /\ sentences = << >>

PoolInit ==
    /\ model_output = << >>
    /\ attention_mask = << >>
    /\ pooled = << >>
    /\ embeddings = << >>

\* the str field "normalize" as the field validation stores a bool: str(v)
str_field(b) == IF b THEN "True" ELSE "False"

\* the truth value of a str
truthy(s) == s # ""

\* lines 76-82: the name the model is loaded from, and model_name afterwards
model_name_used(a) ==
    IF a.model = "None" THEN Or(a.model_name, Some(DEFAULT_HUGGINGFACE_EMBEDDING_MODEL))
    ELSE a.model_name

\* lines 84-92: the name the tokenizer is loaded from, and tokenizer_name afterwards
tokenizer_name_used(a) ==
    IF a.tokenizer = "None"
    THEN Or(model_name_used(a),
            Or(a.tokenizer_name, Some(DEFAULT_HUGGINGFACE_EMBEDDING_MODEL)))
    ELSE a.tokenizer_name

\* lines 94-101: max_length from the model's config when none is given; a
\* model object without config.max_position_embeddings makes it a ValueError
max_length_used(a) ==
    IF a.max_length.some THEN a.max_length
    ELSE IF a.model = "no_config" THEN None
    ELSE Some(<<"config.max_position_embeddings">>)

init_raises(a) ==
    \/ ~max_length_used(a).some
    \/ a.pooling \notin {"cls", "mean"}

\* HuggingFaceEmbedding.__init__
Construct(a) ==
    /\ lpc = "new"
    /\ args' = a
    /\ loaded' = [model |-> IF a.model = "None" THEN model_name_used(a) ELSE None,
                  tokenizer |-> IF a.tokenizer = "None" THEN tokenizer_name_used(a)
                                ELSE None]
    /\ IF init_raises(a)
       THEN /\ lpc' = "failed"
            /\ self' = NoSelf
       ELSE /\ lpc' = "ready"
            /\ self' = [model_name |-> model_name_used(a),
                        tokenizer_name |-> tokenizer_name_used(a),
                        max_length |-> max_length_used(a),
                        pooling |-> a.pooling,
                        normalize |-> str_field(a.normalize),
                        query_instruction |-> a.query_instruction,
                        text_instruction |-> a.text_instruction]
    /\ UNCHANGED <<lastop, sentences, hostedVars>>

_format_query_text(s, query_text) ==
    LET instruction == IF s.text_instruction.some THEN s.text_instruction.v
                       ELSE get_query_instruct_for_model_name(s.model_name)
    IN  strip(fstring(instruction, query_text))

_format_text(s, text) ==
    LET instruction == IF s.text_instruction.some THEN s.text_instruction.v
                       ELSE get_text_instruct_for_model_name(s.model_name)
    IN  strip(fstring(instruction, text))

\* _get_query_embedding, up to the call of the tokenizer in _embed; _embed
\* goes on from the tokenizer's and the model's outputs
_get_query_embedding(query) ==
    /\ lpc = "ready"
    /\ lastop = NoOp
    /\ lastop' = [op |-> "_get_query_embedding", input |-> <<query>>]
    /\ sentences' = <<_format_query_text(self, query)>>
    /\ UNCHANGED <<lpc, args, self, loaded, hostedVars, poolVars>>

\* _get_text_embedding, up to the call of the tokenizer in _embed
_get_text_embedding(text) ==
    /\ lpc = "ready"
    /\ lastop = NoOp
    /\ lastop' = [op |-> "_get_text_embedding", input |-> <<text>>]
    /\ sentences' = <<_format_text(self, text)>>
    /\ UNCHANGED <<lpc, args, self, loaded, hostedVars, poolVars>>

\* _get_text_embeddings, up to the call of the tokenizer in _embed
_get_text_embeddings(ts) ==
    /\ lpc = "ready"
    /\ lastop = NoOp
    /\ lastop' = [op |-> "_get_text_embeddings", input |-> ts]
    /\ sentences' = [i \in 1..Len(ts) |-> _format_text(self, ts[i])]
    /\ UNCHANGED <<lpc, args, self, loaded, hostedVars, poolVars>>

OptInstructions == {None, Some(<<"Q", ":">>), Some(<<"T", ":">>)}

ArgSets ==
    [model_name : {None, Some(InstructorModel), Some(OtherModel)},
     tokenizer_name : {None, Some(TokenizerName)},
     pooling : {"cls", "mean", "max"},
     max_length : {None, Some(<<"given">>)},
     query_instruction : OptInstructions,
     text_instruction : OptInstructions,
     normalize : BOOLEAN,
     model : {"None", "object", "no_config"},
     tokenizer : {"None", "object"}]

\* the arguments that vary in SpecPool: pooling and normalize
PoolArgSets ==
    {[NoArgs EXCEPT !.pooling = p, !.normalize = n] : p \in {"cls", "mean"}, n \in BOOLEAN}

StringSet == {<<"x">>, <<"y", " ">>}

StringLists == UNION {[1..n -> StringSet] : n \in 0..MaxTexts}

(***************************************************************************)
(* _embed from the model's output on.  A tensor is a nested sequence.      *)
(***************************************************************************)
RECURSIVE ISqrtFrom(_, _)
ISqrtFrom(n, r) == IF (r + 1) * (r + 1) > n THEN r ELSE ISqrtFrom(n, r + 1)

\* the integer square root
ISqrt(n) == ISqrtFrom(n, 0)

\* the plain mean over the token axis, padding included
mean_pooling_ignoring_mask(tok, mask) ==
    [b \in 1..Len(tok) |->
        [h \in 1..Len(tok[b][1]) |->
            SumSeq([t \in 1..Len(tok[b]) |-> tok[b][t][h]]) \div Len(tok[b])]]

\* torch.sum(token_embeddings * input_mask_expanded, 1)
\*   / torch.clamp(input_mask_expanded.sum(1), min=1e-9)
\* (a sequence without attended position: 0 / 1e-9)
_mean_pooling(tok, mask) ==
    [b \in 1..Len(tok) |->
        [h \in 1..Len(tok[b][1]) |->
            LET num == SumSeq([t \in 1..Len(tok[b]) |-> tok[b][t][h] * mask[b][t]])
                den == SumSeq(mask[b])
            IN  IF den = 0 THEN 0 ELSE num \div den]]

\* model_output[0][:, 0]
_cls_pooling(tok) == [b \in 1..Len(tok) |-> tok[b][1]]

\* torch.nn.functional.normalize(embeddings, p=2, dim=1): v / max(|v|, 1e-12)
l2_normalize(e) ==
    [b \in 1..Len(e) |->
        LET norm == ISqrt(SumSeq([h \in 1..Len(e[b]) |-> e[b][h] * e[b][h]]))
        IN  [h \in 1..Len(e[b]) |->
                IF norm = 0 THEN 0 ELSE (e[b][h] * Scale) \div norm]]

\* lines 174-179
pool(s, tok, mask) ==
    IF s.pooling = "cls" THEN _cls_pooling(tok) ELSE _mean_pooling(tok, mask)

\* lines 181-186
normalized(s, e) == IF truthy(s.normalize) THEN l2_normalize(e) ELSE e

\* _embed(sentences) once the tokenizer gave the mask and the model its
\* output, one row for each sentence
_embed(tok, mask) ==
    /\ lpc = "ready"
    /\ sentences # << >>
    /\ embeddings = << >>
    /\ Len(tok) = Len(sentences)
    /\ model_output' = tok
    /\ attention_mask' = mask
    /\ pooled' = pool(self, tok, mask)
    /\ embeddings' = normalized(self, pool(self, tok, mask))
    /\ UNCHANGED <<hostedVars, localVars>>

\* token vectors, 3.0 being 3 * Scale
VecSet == {<<3 * Scale, 4 * Scale>>, <<0, 3 * Scale>>, <<4 * Scale, 0>>}

BatchSizes == {1, 2}

\* what is embedded in SpecPool: one string, alone or in a list
PoolStrings == {<<"x">>}

PoolStringLists == {[i \in 1..n |-> <<"x">>] : n \in BatchSizes}

Tensors(B, T) == [1..B -> [1..T -> VecSet]]

Masks(B, T) == [1..B -> [1..T -> {0, 1}]]

(***************************************************************************)
(* The specifications.                                                     *)
(***************************************************************************)
Init == (\E p \in PoolingChoices : HostedInit(p)) /\ LocalInit /\ PoolInit

Next ==
    \/ \E a \in DocumentApis, ts \in TextLists : Call(a, ts)
    \/ \E a \in QueryApis, t \in TextSet : Call(a, <<t>>)
    \/ wait
    \/ \E i \in 1..Len(tasks) : TaskStart(i)
    \/ \E i \in 1..Len(tasks), r \in Responses : Respond(i, r)
    \/ Join

Spec == Init /\ [][Next]_vars

InitLocal == HostedInit("None") /\ LocalInit /\ PoolInit

NextLocal ==
    \/ lpc = "new" /\ \E a \in ArgSets : Construct(a) /\ UNCHANGED poolVars
    \/ \E q \in StringSet : _get_query_embedding(q)
    \/ \E t \in StringSet : _get_text_embedding(t)
    \/ \E ts \in StringLists : _get_text_embeddings(ts)

SpecLocal == InitLocal /\ [][NextLocal]_vars

NextPool ==
    \/ lpc = "new" /\ \E a \in PoolArgSets : Construct(a) /\ UNCHANGED poolVars
    \/ \E q \in PoolStrings : _get_query_embedding(q)
    \/ \E t \in PoolStrings : _get_text_embedding(t)
    \/ \E ts \in PoolStringLists : _get_text_embeddings(ts)
    \/ /\ sentences # << >> /\ embeddings = << >>
       /\ \E T \in 1..MaxTokens :
            \E tok \in Tensors(Len(sentences), T), mask \in Masks(Len(sentences), T) :
               _embed(tok, mask)

SpecPool == InitLocal /\ [][NextPool]_vars

(***************************************************************************)
(* Claims about HuggingFaceInferenceAPIEmbeddings, under Spec.             *)
(***************************************************************************)
Replied(i) == \E k \in 1..Len(order) : order[k].task = i

\* the response to the request of task i
ReplyOf(i) == order[CHOOSE k \in 1..Len(order) : order[k].task = i].resp

RequestsOf(i) == {k \in 1..Len(requests) : requests[k].task = i}

Scalar(x) == Arr(<< >>, <<x>>)

\* C1: a documents call that returns, on a non-empty list, returns len(texts)
\* vectors, the i-th being the embedding computed from the response to the
\* request made for texts[i], whatever the order the requests completed in.
C1_OutputOrderIsInputOrder ==
    (pc = "done" /\ api \in DocumentApis /\ texts # << >> /\ outcome.kind = "return")
    => /\ Len(outcome.val) = Len(texts)
       /\ \A i \in 1..Len(texts) :
            /\ \A k \in RequestsOf(i) : requests[k].text = texts[i]
            /\ Replied(i)
            /\ outcome.val[i] = aembed_query(pooling, ReplyOf(i)).val

\* two texts whose requests completed in the reverse order, with different vectors
C1_Witness ==
    /\ pc = "done" /\ api \in DocumentApis /\ outcome.kind = "return"
    /\ Len(texts) = 2
    /\ order[1].task = 2
    /\ outcome.val[1] # outcome.val[2]

\* C2: one request per element of texts, none repeated and none skipped, every
\* task created before the first request goes out, and the call over only when
\* every request has completed.
C2_OneRequestPerText ==
    /\ \A i \in 1..Len(tasks) : Cardinality(RequestsOf(i)) <= 1
    /\ \A k \in 1..Len(requests) : requests[k].text = texts[requests[k].task]
    /\ (requests # << >>) => Len(tasks) = Len(texts)
    /\ (pc = "done" /\ api \in DocumentApis)
       => /\ Len(requests) = Len(texts)
          /\ \A i \in 1..Len(texts) : Cardinality(RequestsOf(i)) = 1 /\ Replied(i)
          /\ Len(order) = Len(texts)

\* the same text twice: two requests, both in flight at one time, and the call over
C2_Witness ==
    /\ pc = "done" /\ api \in DocumentApis
    /\ texts = <<"a", "a">>
    /\ Len(requests) = 2
    /\ peak = 2

ClientFailed == {k \in 1..Len(order) : ~order[k].resp.ok}

\* what makes the task of a response raise
ReplyFails(r) ==
    \/ ~r.ok
    \/ r.arr.shape[1] # 1
    \/ Len(r.arr.shape) > 2 /\ pooling = "None"

FirstFailing == Min({i \in 1..Len(texts) : ReplyFails(ReplyOf(i))})

\* C3 as claimed: when a request failed, the call raises the exception of a
\* failed request (and embed_documents has closed its loop).
C3_UnderlyingExceptionReraised ==
    (pc = "done" /\ ClientFailed # {})
    => /\ outcome.kind = "raise"
       /\ outcome.exc \in {order[k].resp.exc : k \in ClientFailed}
       /\ (api \in OwnLoopApis => loop = "closed")

\* C3 as amended: when a request failed, the call raises and returns no list;
\* what it raises is the exception of the first text in input order whose task
\* failed, which is that text's request exception unchanged when its request is
\* what failed (always so for embed_query and aembed_query); every failed
\* request leaves its task with the request's exception unchanged; and
\* embed_documents has closed its loop.
C3_FirstFailureReraised ==
    (pc = "done" /\ ClientFailed # {})
    => /\ outcome.kind = "raise"
       /\ outcome.val = << >>
       /\ LET r == ReplyOf(FirstFailing)
          IN  IF ~r.ok THEN outcome.exc = r.exc
              ELSE outcome.exc \in {SqueezeError, PoolingRequired}
       /\ \A k \in ClientFailed :
            tasks[order[k].task].result = Raised(order[k].resp.exc)
       /\ (api \in QueryApis => outcome = Raised(order[1].resp.exc))
       /\ (api \in OwnLoopApis => loop = "closed")

\* embed_documents on two texts, the second request failing after the first succeeded
C3_Witness ==
    /\ pc = "done" /\ api = "embed_documents"
    /\ Len(texts) = 2
    /\ ReplyOf(1).ok /\ ~ReplyFails(ReplyOf(1))
    /\ ~ReplyOf(2).ok
    /\ outcome = Raised(ReplyOf(2).exc)
    /\ loop = "closed"

\* the token vectors of a per-token response: its last axis is the hidden size
Hidden(a) == a.shape[Len(a.shape)]

TokenRows(a) == Len(a.data) \div Hidden(a)

ExpectedPooled(p, a) ==
    IF p = "cls" THEN [h \in 1..Hidden(a) |-> Scalar(a.data[h])]
    ELSE [h \in 1..Hidden(a) |->
            Scalar(SumSeq([t \in 1..TokenRows(a) |-> a.data[(t - 1) * Hidden(a) + h]])
                   \div TokenRows(a))]

NeedsPooling(r) == r.ok /\ r.arr.shape[1] = 1 /\ Len(r.arr.shape) > 2

\* C6: embed_query on a per-token response, with a pooling set, returns a flat
\* list of hidden-size length: the first token's vector (CLS) or the mean of
\* the token vectors (MEAN).
C6_EmbedQueryPoolsToFlatList ==
    (pc = "done" /\ api = "embed_query" /\ pooling # "None" /\ NeedsPooling(order[1].resp))
    => outcome = Returned(ExpectedPooled(pooling, order[1].resp.arr))

\* C8: a documents call on the empty list issues no request and returns [].
C8_EmptyListReturnsEmpty ==
    (pc = "done" /\ api \in DocumentApis /\ texts = << >>)
    => requests = << >> /\ outcome = Returned(<< >>)

PooledReply(r) == r.ok /\ r.arr.shape[1] = 1 /\ Len(r.arr.shape) = 2

\* C9: a response that is 1-D once the batch axis is removed is returned as
\* the list of its elements, whatever the pooling setting, without an error.
C9_PooledResponseReturnedUnchanged ==
    /\ \A k \in 1..Len(order) :
         PooledReply(order[k].resp)
         => tasks[order[k].task].result =
              Returned([h \in 1..Hidden(order[k].resp.arr) |->
                          Scalar(order[k].resp.arr.data[h])])
    /\ (pc = "done" /\ api = "aembed_query" /\ PooledReply(order[1].resp))
       => outcome = Returned([h \in 1..Hidden(order[1].resp.arr) |->
                                Scalar(order[1].resp.arr.data[h])])

C9_Witness ==
    /\ pc = "done" /\ api = "aembed_query" /\ pooling = "None"
    /\ PooledReply(order[1].resp)
    /\ outcome.kind = "return" /\ Len(outcome.val) = 2

\* C10 as claimed: with pooling None, a call that got a per-token response
\* fails with the ValueError saying that pooling is required.
C10_FailsWithPoolingRequired ==
    (pc = "done" /\ pooling = "None"
        /\ \E k \in 1..Len(order) : NeedsPooling(order[k].resp))
    => outcome = Raised(PoolingRequired)

\* C10 as amended: with pooling None, the task of a per-token response ends
\* with that ValueError and a call that got such a response never returns a
\* value; embed_query and aembed_query raise that ValueError, and the documents
\* calls raise it unless the task of an earlier text in the list failed, whose
\* exception they raise instead.
C10_PoolingRequiredUnlessEarlierFailure ==
    pooling = "None"
    => /\ \A k \in 1..Len(order) :
            NeedsPooling(order[k].resp)
            => tasks[order[k].task].result = Raised(PoolingRequired)
       /\ (pc = "done" /\ \E k \in 1..Len(order) : NeedsPooling(order[k].resp))
          => /\ outcome.kind = "raise"
             /\ outcome.val = << >>
             /\ (api \in QueryApis => outcome = Raised(PoolingRequired))
             /\ LET r == ReplyOf(FirstFailing)
                IN  IF NeedsPooling(r) THEN outcome = Raised(PoolingRequired)
                    ELSE outcome.exc = (IF r.ok THEN SqueezeError ELSE r.exc)

\* embed_documents on two texts: a pooled response, then a per-token one
C10_Witness ==
    /\ pc = "done" /\ api = "embed_documents" /\ pooling = "None"
    /\ Len(texts) = 2
    /\ PooledReply(ReplyOf(1))
    /\ NeedsPooling(ReplyOf(2))
    /\ outcome = Raised(PoolingRequired)


(***************************************************************************)
(* Claims about HuggingFaceEmbedding, under SpecLocal and SpecPool.        *)
(***************************************************************************)
\* the instruction the caller chose for queries, else the model's default
QueryInstruction ==
    IF args.query_instruction.some THEN args.query_instruction.v
    ELSE get_query_instruct_for_model_name(self.model_name)

\* C4: _get_query_embedding(q) embeds "<query_instruction> q", stripped, the
\* model's default query instruction standing in only when query_instruction
\* is None; text_instruction has no part in it.
C4_QueryInstructionPrepended ==
    lastop.op = "_get_query_embedding"
    => sentences = <<strip(fstring(QueryInstruction, lastop.input[1]))>>

\* C5: an instance built with normalize=True returns the L2-normalized pooled
\* vectors from _embed, one built with normalize=False the pooled vectors as
\* they are.
C5_NormalizeArgumentDecides ==
    embeddings # << >>
    => embeddings = (IF args.normalize THEN l2_normalize(pooled) ELSE pooled)

\* the attended positions of sequence b
Attended(b) == {t \in 1..Len(attention_mask[b]) : attention_mask[b][t] = 1}

RECURSIVE SumAt(_, _)
SumAt(f, S) ==
    IF S = {} THEN 0
    ELSE LET t == CHOOSE x \in S : TRUE IN f[t] + SumAt(f, S \ {t})

\* C7: with mean pooling, the pooled vector of a sequence with an attended
\* position is the sum of its token embeddings at the attended positions over
\* their number, and no value at a padding position changes the pooled
\* vectors; with cls pooling it is the embedding at token position 0.
C7_MeanPoolingIgnoresPadding ==
    embeddings # << >>
    => /\ self.pooling = "mean"
          => /\ \A b \in 1..Len(model_output) :
                  Attended(b) # {}
                  => \A h \in 1..Len(model_output[b][1]) :
                       pooled[b][h] =
                         SumAt([t \in 1..Len(model_output[b]) |-> model_output[b][t][h]],
                               Attended(b)) \div Cardinality(Attended(b))
             /\ \A b \in 1..Len(model_output) :
                  \A t \in (1..Len(model_output[b])) \ Attended(b) :
                    \A v \in VecSet :
                      pool(self, [model_output EXCEPT ![b][t] = v], attention_mask)
                        = pooled
       /\ self.pooling = "cls"
          => \A b \in 1..Len(model_output) : pooled[b] = model_output[b][1]

\* mean pooling of a sequence whose second position is padding with another vector
C7_Witness ==
    /\ embeddings # << >>
    /\ self.pooling = "mean"
    /\ \E b \in 1..Len(model_output) :
         /\ attention_mask[b] = <<1, 0>>
         /\ model_output[b][2] # model_output[b][1]
         /\ pooled[b] = model_output[b][1]

\* C11: when no tokenizer object is handed to __init__, the tokenizer is loaded
\* from the caller's tokenizer_name whenever one is given, whatever model_name
\* and model are; model_name and then the default model name serve as the
\* tokenizer's name only when tokenizer_name is None.
C11_TokenizerNameTakesPrecedence ==
    (lpc # "new" /\ args.tokenizer = "None")
    => loaded.tokenizer =
         Or(args.tokenizer_name,
            Or(args.model_name, Some(DEFAULT_HUGGINGFACE_EMBEDDING_MODEL)))

====
